---- MODULE Spec2Model ----
(***************************************************************************)
(* The realtime voice session manager (class LiveSession, the version of   *)
(* src/App.tsx lines 318-480 with the isActive flag) as a state machine.   *)
(*                                                                         *)
(* JavaScript runs one callback at a time, so every action below is the    *)
(* code that runs between two suspension points (an await, or the return   *)
(* to the event loop).  The browser and the remote service are the         *)
(* environment: they resolve or reject the awaited promises, deliver the   *)
(* stream callbacks, deliver captured blocks and advance the audio clock.  *)
(*                                                                         *)
(* Around the session: a second LiveSession instance (SpecPair), the Live  *)
(* Mode component's transcript list (SpecLiveMode), the temporary chat     *)
(* component (SpecChat) and the audio codec (SpecCodec).                   *)
(***************************************************************************)
EXTENDS Integers, Sequences, FiniteSets, TLC

\* ------------------------------------------------------------- bounds
\* Spec has every action once: one connect() call, one disconnect() call, one
\* inbound message of any kind, one captured block.  SpecLife explores the
\* lifecycle (several connect() and disconnect() calls, the stream's open,
\* close and error callbacks); SpecPlay explores playback (several messages
\* with decodable audio, a longer clock).
OneCall == 1          \* connect() calls, and disconnect() calls, under Spec and SpecPlay
OneMsg == 1           \* inbound messages delivered under Spec
TwoMsgs == 2          \* inbound messages delivered under SpecDecode
OneTick == 1          \* largest reading of the output clock under Spec
MaxConnects == 2      \* connect() calls under SpecLife
MaxDisconnects == 2   \* disconnect() calls under SpecLife
MaxMsgs == 3          \* inbound messages delivered under SpecPlay
MaxClock == 2         \* largest reading of the output clock under SpecPlay
MaxSends == 3         \* captured microphone blocks delivered under SpecCapture
MaxBlocks == 1        \* captured microphone blocks delivered
MaxDur == 2           \* longest audio chunk, in clock units
MaxText == 3          \* longest error message, in characters
MaxTurns == 2         \* changes of the running instance under SpecPair
MaxTurnsShown == 3    \* turns in the transcript list of the Live Mode component
MaxFrags == 4         \* transcript fragments delivered to the component per session
MaxChat == 3          \* messages the owner sends in the temporary chat before clearing it
MaxInFlight == 2      \* requests of the temporary chat outstanding at a time
MaxSamples == 2       \* samples in a block given to the codec
Steps == 4            \* sample values told apart within one 16-bit step
Scale == 32768        \* 16-bit steps in the range from 0 to 1
Threshold == 150      \* LiveMode: text length from which a turn takes no more fragments

Attempts == 1..MaxConnects
Msgs == 1..MaxMsgs
Resources == {"in", "out", "mic", "pipe"} \X Attempts

Max(a, b) == IF a >= b THEN a ELSE b

VARIABLES
    aistudio,        \* window.aistudio exists (the capability precheck collaborator)
    suspended,       \* audio clocks whose state is 'suspended'
    resuming,        \* the clock whose resume() each connect() invocation awaits (0: none)
    isActive,        \* LiveSession.isActive
    inputContext,    \* LiveSession.inputContext: 0 (null) or the attempt that created it
    outputContext,   \* LiveSession.outputContext
    nextStartTime,   \* LiveSession.nextStartTime
    sources,         \* LiveSession.sources: handles, named by the message they play
    stream,          \* LiveSession.stream: 0 or the attempt that acquired it
    processor,       \* LiveSession.processor: 0 or the stream whose on-open built it
    inputSource,     \* LiveSession.inputSource
    sessionPromise,  \* LiveSession.sessionPromise: 0 or the remote stream
    status,          \* last status given to onStatusChange
    details,         \* details given with it ("" when none)
    pc,              \* where each connect() invocation stands
    acquired,        \* resources created so far
    released,        \* how often each was stopped / disconnected / closed
    pipeCtx,         \* the input clock each capture pipeline was built on
    rs,              \* remote streams: none, connecting, open, errored, closed
    promise,         \* the promise ai.live.connect returned: pending or resolved
    queued,          \* per stream: the blocks whose send is chained on its pending promise
    sent,            \* per stream: the blocks handed to sendRealtimeInput, in the order of the calls
    msg,             \* inbound messages: handler position and the handle made
    clock,           \* currentTime of the output clock in outputContext
    nDisc,           \* disconnect() calls made by the owner
    nBlocks,         \* captured blocks delivered
    nFailed,         \* transmissions that failed so far
    ran,             \* attempts that passed line 347
    tornDown,        \* of these, the ones a teardown has run for since
    sinceDisc,       \* "no", or what connect() awaited when the owner called
                     \* disconnect() and has not called connect() since
    lastIntr,        \* newest message whose interruption has been handled
    epoch,           \* resets of nextStartTime so far
    rdMax,           \* largest clock reading taken at line 445 since the last start()
    fx,              \* what the last step did: stream whose callback ran, callbacks made, status reports
    turn,            \* how often the instance whose code runs has changed
    other,           \* the fields and resources of the second LiveSession instance
    transcripts,     \* LiveMode: the turns shown, each with its role and the length of its text
    ui,              \* what the last step of a component did
    messages,        \* TemporaryChat: the messages state
    isLoading,       \* TemporaryChat: the isLoading state
    rendered,        \* TemporaryChat: the isLoading the handlers of the last render read
    inFlight,        \* TemporaryChat: sendChatMessage requests that have not settled
    storage,         \* localStorage item nexus_temp_chat_history: absent, or a JSON text
    samples,         \* codec: a block of samples, each in units of 1/(Scale * Steps)
    pcm,             \* codec: the bytes createPcmBlob made of it, once made
    decoded          \* codec: the samples decodeAudioData made of the bytes, once made

vars == <<aistudio, suspended, resuming, isActive, inputContext, outputContext, nextStartTime, sources,
          stream, processor, inputSource, sessionPromise, status, details, pc,
          acquired, released, pipeCtx, rs, promise, queued, sent, msg, clock, nDisc,
          nBlocks, nFailed, ran, tornDown, sinceDisc, lastIntr, epoch, rdMax, fx,
          turn, other, transcripts, ui, messages, isLoading, rendered, inFlight, storage,
          samples, pcm, decoded>>

\* The state of the components around the session.
codecVars == <<samples, pcm, decoded>>
uiVars == <<transcripts, ui, messages, isLoading, rendered, inFlight, storage, codecVars>>
liveModeVars == <<transcripts>>
chatVars == <<messages, isLoading, rendered, inFlight, storage>>
\* The state of the session and of its environment.
sessionVars ==
    <<aistudio, suspended, resuming, isActive, inputContext, outputContext, nextStartTime,
      sources, stream, processor, inputSource, sessionPromise, status, details, pc,
      acquired, released, pipeCtx, rs, promise, queued, sent, msg, clock, nDisc,
      nBlocks, nFailed, ran, tornDown, sinceDisc, lastIntr, epoch, rdMax, fx,
      turn, other>>
\* n: the fragments delivered since the list was last emptied.
\* localStorage.getItem of a key that was never set gives null.
NoItem == [has |-> FALSE, json |-> <<>>]
NoUi == [op |-> "", role |-> "", len |-> 0, sp |-> FALSE, n |-> 0]

\* Texts are sequences of characters of a two-letter alphabet.
Texts == UNION {[1..n -> {"a", "b"}] : n \in 0..MaxText}
\* The error given to on-error: it may have no message property at all.
Errors == {[has |-> FALSE, text |-> <<>>]} \cup {[has |-> TRUE, text |-> t] : t \in Texts}
NoError == [has |-> FALSE, text |-> <<>>]

\* mic: -1, or the number of status reports the step made before it called
\* getUserMedia.  pre: what the precheck of lines 339-345 came to in the step,
\* "" when the step is not one of the precheck.  frags: the transcription
\* fragments of the message the step received; tr: the roles given to
\* onTranscription, in the order of the calls.  calls: what a captured block
\* called, in the order of the calls.
Fx(r, cb, st) ==
    [r |-> r, cb |-> cb, st |-> st, err |-> NoError, mic |-> -1, pre |-> "",
     frags |-> {}, tr |-> <<>>, calls |-> <<>>]

NoMsg == [st |-> "none", dur |-> 0, bad |-> "ok", intr |-> FALSE, h |-> "none",
          start |-> 0, at |-> 0, ctx |-> 0, flo |-> 0, epR |-> 0, epS |-> 0, ord |-> 0]

Open(x) == x \in acquired /\ released[x] = 0

\* Lines 319-333: what one LiveSession instance consists of: its fields, the
\* objects they refer to, what its owner was told through the callbacks given
\* to its constructor, and the calls and handlers of it that are suspended.
Fields ==
    [suspended |-> suspended,
     resuming |-> resuming,
     isActive |-> isActive,
     inputContext |-> inputContext,
     outputContext |-> outputContext,
     nextStartTime |-> nextStartTime,
     sources |-> sources,
     stream |-> stream,
     processor |-> processor,
     inputSource |-> inputSource,
     sessionPromise |-> sessionPromise,
     status |-> status,
     details |-> details,
     pc |-> pc,
     acquired |-> acquired,
     released |-> released,
     pipeCtx |-> pipeCtx,
     rs |-> rs,
     promise |-> promise,
     queued |-> queued,
     sent |-> sent,
     msg |-> msg,
     clock |-> clock,
     nDisc |-> nDisc,
     nBlocks |-> nBlocks,
     nFailed |-> nFailed,
     ran |-> ran,
     tornDown |-> tornDown,
     sinceDisc |-> sinceDisc,
     lastIntr |-> lastIntr,
     epoch |-> epoch,
     rdMax |-> rdMax]

NotYet == [done |-> FALSE, err |-> FALSE, data |-> <<>>]

\* The state after construction, for a block of samples out of blocks.
InitWith(blocks) ==
    /\ samples \in blocks
    /\ pcm = NotYet /\ decoded = NotYet
    /\ aistudio \in BOOLEAN
    /\ suspended = {}
    /\ resuming = [a \in Attempts |-> 0]
    /\ isActive = FALSE
    /\ inputContext = 0 /\ outputContext = 0
    /\ nextStartTime = 0
    /\ sources = {}
    /\ stream = 0 /\ processor = 0 /\ inputSource = 0
    /\ sessionPromise = 0
    /\ status = "idle" /\ details = ""
    /\ pc = [a \in Attempts |-> "new"]
    /\ acquired = {}
    /\ released = [x \in Resources |-> 0]
    /\ pipeCtx = [a \in Attempts |-> 0]
    /\ rs = [a \in Attempts |-> "none"]
    /\ promise = [a \in Attempts |-> "pending"]
    /\ queued = [a \in Attempts |-> <<>>]
    /\ sent = [a \in Attempts |-> <<>>]
    /\ msg = [m \in Msgs |-> NoMsg]
    /\ clock = 0
    /\ nDisc = 0 /\ nBlocks = 0 /\ nFailed = 0
    /\ ran = {} /\ tornDown = {}
    /\ sinceDisc = "no"
    /\ lastIntr = 0 /\ epoch = 0 /\ rdMax = 0
    /\ fx = Fx(0, {}, <<>>)
    /\ turn = 0
    /\ other = Fields
    /\ transcripts = <<>>
    /\ ui = NoUi
    /\ messages = <<>>
    /\ isLoading = FALSE
    /\ rendered = FALSE
    /\ inFlight = 0
    /\ storage = NoItem

Init == InitWith({<<>>})

netVars == <<rs, promise, queued, sent, sent>>
playVars == <<nextStartTime, sources, msg, lastIntr, epoch, rdMax>>
pipeVars == <<processor, inputSource, pipeCtx>>

\* ------------------------------------------------------------ connect()

\* A faulty connect(): the microphone is requested before anything is reported.
RequestPointFirst(st) == 0
\* Lines 355-358: getUserMedia is called after the reports made so far.
RequestPoint(st) == Len(st)

\* Lines 347-358: set the flag, create both clocks (each may start suspended:
\* sp names those that do), reset the accumulator, report connecting, then
\* suspend in getUserMedia.
connectBody(a, sp, pre) ==
    /\ isActive' = TRUE
    /\ inputContext' = a /\ outputContext' = a
    /\ acquired' = acquired \cup {<<"in", a>>, <<"out", a>>}
    /\ suspended' = suspended \cup {<<k, a>> : k \in sp}
    /\ nextStartTime' = 0
    /\ clock' = 0
    /\ epoch' = epoch + 1 /\ rdMax' = 0
    /\ status' = "connecting" /\ details' = ""
    /\ pc' = [pc EXCEPT ![a] = "getUserMedia"]
    /\ ran' = ran \cup {a}
    /\ LET st == <<<<"connecting", "">>>>
       IN fx' = [Fx(0, {}, st) EXCEPT !.mic = RequestPoint(st), !.pre = pre]
    /\ UNCHANGED <<aistudio, turn, other, uiVars, resuming, sources, stream, pipeVars, sessionPromise,
                   released, netVars, msg, nDisc, nBlocks, nFailed, tornDown, lastIntr>>

\* A faulty line 339: the collaborator is called whether it exists or not.
PrecheckAlways == TRUE
\* Line 339: the precheck runs when window.aistudio exists.
Precheck == aistudio

\* Lines 335-346: the owner calls connect().
connect(a, sp) ==
    /\ pc[a] = "new"
    /\ \A b \in Attempts : b < a => pc[b] # "new"
    /\ sinceDisc' = "no"
    /\ IF isActive
       THEN /\ pc' = [pc EXCEPT ![a] = "noop"]
            /\ fx' = Fx(0, {}, <<>>)
            /\ UNCHANGED <<aistudio, turn, other, uiVars, suspended, resuming, isActive, inputContext, outputContext, playVars,
                           stream, pipeVars, sessionPromise, status, details, acquired,
                           released, netVars, clock, nDisc, nBlocks, nFailed, ran, tornDown>>
       ELSE IF Precheck
       THEN /\ pc' = [pc EXCEPT ![a] = "hasKey"]
            /\ fx' = Fx(0, {}, <<>>)
            /\ UNCHANGED <<aistudio, turn, other, uiVars, suspended, resuming, isActive, inputContext, outputContext, playVars,
                           stream, pipeVars, sessionPromise, status, details, acquired,
                           released, netVars, clock, nDisc, nBlocks, nFailed, ran, tornDown>>
       ELSE connectBody(a, sp, "absent")

\* Line 340 resumes: hasSelectedApiKey() answered.
HasKeyResolved(a, hasKey, sp) ==
    /\ pc[a] = "hasKey"
    /\ UNCHANGED sinceDisc
    /\ IF hasKey
       THEN connectBody(a, sp, "has")
       ELSE /\ pc' = [pc EXCEPT ![a] = "selectKey"]
            /\ fx' = [Fx(0, {}, <<>>) EXCEPT !.pre = "asked"]
            /\ UNCHANGED <<aistudio, turn, other, uiVars, suspended, resuming, isActive, inputContext, outputContext, playVars,
                           stream, pipeVars, sessionPromise, status, details, acquired,
                           released, netVars, clock, nDisc, nBlocks, nFailed, ran, tornDown>>

\* Line 342 resumes: the key dialog returned.
SelectKeyResolved(a, sp) ==
    /\ pc[a] = "selectKey"
    /\ UNCHANGED sinceDisc
    /\ connectBody(a, sp, "selected")

\* The messages a rejected promise or a thrown error may carry ("" when it
\* has none).
ErrMessages == {"", "NotAllowedError"}
\* A faulty line 403: the message of the error is passed on as it is.
CatchDetailsRaw(errMessage) == errMessage
\* Line 403: err.message || 'Microphone access denied.'
CatchDetails(errMessage) ==
    IF errMessage = "" THEN "Microphone access denied." ELSE errMessage

\* Lines 401-405: the catch.
Catch(a, errMessage) ==
    /\ status' = "error" /\ details' = CatchDetails(errMessage)
    /\ isActive' = FALSE
    /\ pc' = [pc EXCEPT ![a] = "failed"]
    /\ resuming' = [resuming EXCEPT ![a] = 0]
    /\ tornDown' = tornDown \cup {a}
    /\ fx' = Fx(0, {}, <<<<"error", CatchDetails(errMessage)>>>>)
    /\ UNCHANGED <<sessionPromise, rs>>

\* A faulty connect(): it gives the handshake no time and reports an error
\* of its own as soon as the stream is requested.
OpenStreamTimedOut(a) ==
    /\ sessionPromise' = a
    /\ rs' = [rs EXCEPT ![a] = "connecting"]
    /\ pc' = [pc EXCEPT ![a] = "done"]
    /\ resuming' = [resuming EXCEPT ![a] = 0]
    /\ status' = "error" /\ details' = "timeout"
    /\ isActive' = FALSE
    /\ fx' = Fx(0, {}, <<<<"error", "timeout">>>>)
    /\ UNCHANGED tornDown
\* Lines 371-400: ai.live.connect is called and its promise stored.
OpenStream(a) ==
    /\ sessionPromise' = a
    /\ rs' = [rs EXCEPT ![a] = "connecting"]
    /\ pc' = [pc EXCEPT ![a] = "done"]
    /\ resuming' = [resuming EXCEPT ![a] = 0]
    /\ fx' = Fx(0, {}, <<>>)
    /\ UNCHANGED <<status, details, isActive, tornDown>>

\* connect() suspends in the resume() of clock <<k, c>> (line 368 or 369).
AwaitResume(a, k, c) ==
    /\ pc' = [pc EXCEPT ![a] = IF k = "in" THEN "resumeIn" ELSE "resumeOut"]
    /\ resuming' = [resuming EXCEPT ![a] = c]
    /\ fx' = Fx(0, {}, <<>>)
    /\ UNCHANGED <<sessionPromise, rs, status, details, isActive, tornDown>>

\* Line 371 onwards: ai.live.connect is called; it may throw.
From371(a, throws, errMessage) ==
    IF throws THEN Catch(a, errMessage) ELSE OpenStream(a)

\* Line 369 onwards, sp being the clocks suspended by now.
From369(a, sp, throws, errMessage) ==
    IF <<"out", outputContext>> \in sp
    THEN AwaitResume(a, "out", outputContext)
    ELSE From371(a, throws, errMessage)

\* Line 368 onwards.
From368(a, sp, throws, errMessage) ==
    IF <<"in", inputContext>> \in sp
    THEN AwaitResume(a, "in", inputContext)
    ELSE From369(a, sp, throws, errMessage)

\* Line 358 resumes with a stream; lines 368-400 follow up to the next await.
GetUserMediaResolved(a, throws, errMessage) ==
    /\ pc[a] = "getUserMedia"
    /\ stream' = a
    /\ acquired' = acquired \cup {<<"mic", a>>}
    /\ From368(a, suspended, throws, errMessage)
    /\ UNCHANGED <<aistudio, turn, other, uiVars, suspended, inputContext, outputContext, playVars, pipeVars,
                   released, promise, queued, sent, clock, nDisc, nBlocks, nFailed,
                   ran, sinceDisc>>

\* Line 368 or 369 resumes: the clock awaited is running.
ResumeResolved(a, throws, errMessage) ==
    /\ pc[a] \in {"resumeIn", "resumeOut"}
    /\ LET sp == suspended \ {<<IF pc[a] = "resumeIn" THEN "in" ELSE "out", resuming[a]>>}
       IN /\ suspended' = sp
          /\ IF pc[a] = "resumeIn"
             THEN From369(a, sp, throws, errMessage)
             ELSE From371(a, throws, errMessage)
    /\ UNCHANGED <<aistudio, turn, other, uiVars, inputContext, outputContext, playVars, stream, pipeVars,
                   acquired, released, promise, queued, sent, clock, nDisc, nBlocks, nFailed,
                   ran, sinceDisc>>

\* Line 358 rejects (microphone denied); the catch of lines 401-405 runs.
GetUserMediaRejected(a, errMessage) ==
    /\ pc[a] = "getUserMedia"
    /\ Catch(a, errMessage)
    /\ UNCHANGED <<aistudio, turn, other, uiVars, suspended, inputContext, outputContext, playVars, stream,
                   pipeVars, acquired, released, promise, queued, sent, clock, nDisc, nBlocks,
                   nFailed, ran, sinceDisc>>

\* Lines 340 or 342 reject: the precheck is outside the try, so the rejection
\* leaves connect() and nothing of lines 347-405 runs.
PrecheckRejected(a) ==
    /\ pc[a] \in {"hasKey", "selectKey"}
    /\ pc' = [pc EXCEPT ![a] = "failed"]
    /\ fx' = Fx(0, {}, <<>>)
    /\ UNCHANGED <<aistudio, turn, other, uiVars, suspended, resuming, isActive, inputContext, outputContext, playVars, stream,
                   pipeVars, sessionPromise, status, details, acquired, released,
                   netVars, clock, nDisc, nBlocks, nFailed, ran, tornDown, sinceDisc>>

\* connect() gets to line 347 in this step: from the call when there is no
\* precheck, or from the await of line 340 or 342.
Reaches347(a) ==
    \/ /\ pc[a] = "new" /\ \A b \in Attempts : b < a => pc[b] # "new"
       /\ ~isActive /\ ~Precheck
    \/ pc[a] \in {"hasKey", "selectKey"}

\* Lines 347-351 with a constructor of an audio clock that throws: line 350
\* (at = "in") or line 351 (at = "out").  These lines are outside the try.
ClockCreationThrows(a, at) ==
    /\ Reaches347(a)
    /\ sinceDisc' = IF pc[a] = "new" THEN "no" ELSE sinceDisc
    /\ isActive' = TRUE
    /\ IF at = "out"
       THEN /\ inputContext' = a
            /\ acquired' = acquired \cup {<<"in", a>>}
       ELSE UNCHANGED <<inputContext, acquired>>
    /\ pc' = [pc EXCEPT ![a] = "failed"]
    /\ ran' = ran \cup {a}
    /\ fx' = [Fx(0, {}, <<>>) EXCEPT !.pre = IF pc[a] = "new" THEN "absent"
                                             ELSE IF pc[a] = "hasKey" THEN "has"
                                             ELSE "selected"]
    /\ UNCHANGED <<aistudio, turn, other, uiVars, suspended, resuming, outputContext, playVars, stream, pipeVars, sessionPromise,
                   status, details, released, netVars, clock, nDisc, nBlocks, nFailed, tornDown>>

\* Line 368 or 369 rejects; the catch of lines 401-405 runs.
ResumeRejected(a, errMessage) ==
    /\ pc[a] \in {"resumeIn", "resumeOut"}
    /\ Catch(a, errMessage)
    /\ UNCHANGED <<aistudio, turn, other, uiVars, suspended, inputContext, outputContext, playVars, stream,
                   pipeVars, acquired, released, promise, queued, sent, clock, nDisc, nBlocks,
                   nFailed, ran, sinceDisc>>

\* ---------------------------------------------------------- disconnect()

\* What the fields of the session refer to: lines 472-476 release these.
Held ==
    (IF stream # 0 THEN {<<"mic", stream>>} ELSE {})
    \cup (IF inputSource # 0 THEN {<<"pipe", inputSource>>} ELSE {})
    \cup (IF inputContext # 0 THEN {<<"in", inputContext>>} ELSE {})
    \cup (IF outputContext # 0 THEN {<<"out", outputContext>>} ELSE {})

\* A faulty line 475: close() without the catch, so the rejection of a
\* second close() is left unhandled.
CloseUncaught(wasClosed) == IF wasClosed THEN {"unhandled"} ELSE {}
\* Lines 475-476: close() of a clock that is closed already rejects, and the
\* catch swallows the rejection.
Close(wasClosed) == IF wasClosed THEN {"close_rejected"} ELSE {}
\* The rejections the teardown meets.
CloseRejections ==
    UNION {Close(released[x] > 0) : x \in {y \in Held : y[1] \in {"in", "out"}}}

\* Lines 470-479.
disconnect ==
    /\ isActive' = FALSE
    /\ released' = [x \in Resources |-> IF x \in Held THEN released[x] + 1 ELSE released[x]]
    /\ status' = "idle" /\ details' = ""
    /\ sessionPromise' = 0
    /\ tornDown' = ran
    /\ suspended' = suspended \ Held
    /\ UNCHANGED <<aistudio, turn, other, uiVars, resuming, inputContext, outputContext, playVars, stream, pipeVars,
                   pc, acquired, promise, queued, sent, clock, nBlocks, nFailed, ran>>

\* What a connect() call is suspended in, if any.
Awaited ==
    IF \E a \in Attempts : pc[a] \in {"hasKey", "selectKey"} THEN "precheck"
    ELSE IF \E a \in Attempts : pc[a] \in {"getUserMedia", "resumeIn", "resumeOut"} THEN "microphone"
    ELSE IF \E r \in Attempts : rs[r] = "connecting" THEN "handshake"
    ELSE "nothing"

\* The owner calls disconnect().
CallDisconnect ==
    /\ nDisc' = nDisc + 1
    /\ sinceDisc' = Awaited
    /\ disconnect
    /\ fx' = Fx(0, CloseRejections, <<<<"idle", "">>>>)
    /\ UNCHANGED rs

\* ------------------------------------------------------- stream callbacks

\* A faulty line 409: the null check the wrong way round.
HasDevicesInverted == inputContext = 0 \/ stream = 0
\* Line 409: on-open goes on when both fields are set.
HasDevices == inputContext # 0 /\ stream # 0

\* Lines 408-431: on-open, delivered once per remote stream.
handleOpen(r) ==
    /\ rs[r] = "connecting"
    /\ rs' = [rs EXCEPT ![r] = "open"]
    /\ IF ~HasDevices
       THEN /\ fx' = Fx(r, {}, <<>>)
            /\ UNCHANGED <<status, details, pipeVars, acquired>>
       ELSE /\ status' = "connected" /\ details' = ""
            /\ inputSource' = r /\ processor' = r
            /\ pipeCtx' = [pipeCtx EXCEPT ![r] = inputContext]
            /\ acquired' = acquired \cup {<<"pipe", r>>}
            /\ fx' = Fx(r, {}, <<<<"connected", "">>>>)
    /\ UNCHANGED <<aistudio, turn, other, uiVars, suspended, resuming, isActive, inputContext, outputContext, playVars, stream,
                   sessionPromise, pc, released, promise, queued, sent, clock, nDisc, nBlocks, nFailed,
                   ran, tornDown, sinceDisc>>

\* A faulty line 426: the chain has no catch, so a failure of the send is an
\* unhandled rejection.
TransmitUncaught(ok) == IF ok THEN {"send"} ELSE {"unhandled"}
\* Lines 424-426: the send chained on the stream promise, and the catch that
\* ends the chain: a send that throws is swallowed.
Transmit(ok) == IF ok THEN {"send"} ELSE {"send_failed"}
\* Lines 424-426 when the stream promise is rejected: the then is skipped.
Rejected == Transmit(FALSE)
Failures(cb) == IF cb \cap {"send_failed", "unhandled"} # {} THEN 1 ELSE 0

\* The reactions of a promise run in the order they were registered with
\* then (line 424): the blocks chained on a pending promise are sent in that
\* order when it resolves.
FlushedNewestFirst(done, chained) ==
    done \o [i \in 1..Len(chained) |-> chained[Len(chained) + 1 - i]]
Flushed(done, chained) == done \o chained

\* The promise of ai.live.connect resolves; the sends chained on it at
\* lines 424-426 run, whatever the flag says by then.
PromiseResolved(r, ok) ==
    /\ rs[r] = "open" /\ promise[r] = "pending"
    /\ promise' = [promise EXCEPT ![r] = "resolved"]
    /\ queued' = [queued EXCEPT ![r] = <<>>]
    /\ sent' = [sent EXCEPT ![r] = Flushed(@, queued[r])]
    /\ LET cb == IF queued[r] # <<>> THEN Transmit(ok) ELSE {}
       IN /\ fx' = Fx(0, cb, <<>>)
          /\ nFailed' = nFailed + Failures(cb)
    /\ UNCHANGED <<aistudio, turn, other, uiVars, suspended, resuming, isActive, inputContext, outputContext, playVars, stream,
                   pipeVars, sessionPromise, status, details, pc, acquired, released,
                   rs, clock, nDisc, nBlocks, ran, tornDown, sinceDisc>>

\* The promise of ai.live.connect rejects; the chains of lines 424-426 end in
\* their catch.
PromiseRejected(r) ==
    /\ rs[r] # "none" /\ promise[r] = "pending"
    /\ promise' = [promise EXCEPT ![r] = "rejected"]
    /\ queued' = [queued EXCEPT ![r] = <<>>]
    /\ UNCHANGED sent
    /\ LET cb == IF queued[r] # <<>> THEN Rejected ELSE {}
       IN /\ fx' = Fx(0, cb, <<>>)
          /\ nFailed' = nFailed + Failures(cb)
    /\ UNCHANGED <<aistudio, turn, other, uiVars, suspended, resuming, isActive, inputContext, outputContext, playVars, stream,
                   pipeVars, sessionPromise, status, details, pc, acquired, released,
                   rs, clock, nDisc, nBlocks, ran, tornDown, sinceDisc>>

\* Lines 421-426: the calls one block makes, in their order: onVolumeChange,
\* then the send, when the stream promise has resolved and its reaction runs.
CaptureCallsSendFirst(cb) ==
    (IF cb \cap {"send", "send_failed"} # {} THEN <<"send">> ELSE <<>>) \o <<"volume">>
CaptureCalls(cb) ==
    <<"volume">> \o (IF cb \cap {"send", "send_failed"} # {} THEN <<"send">> ELSE <<>>)

\* Lines 415-427: onaudioprocess of the pipeline built by on-open of stream p.
onaudioprocess(p, ok) ==
    /\ Open(<<"pipe", p>>) /\ Open(<<"in", pipeCtx[p]>>)
    /\ <<"in", pipeCtx[p]>> \notin suspended
    /\ nBlocks' = nBlocks + 1
    /\ LET cb == IF ~isActive THEN {}
                 ELSE IF sessionPromise = 0 THEN {"volume"}
                 ELSE IF promise[sessionPromise] = "resolved" THEN {"volume"} \cup Transmit(ok)
                 ELSE IF promise[sessionPromise] = "rejected" THEN {"volume"} \cup Rejected
                 ELSE {"volume"}
       IN /\ fx' = [Fx(0, cb, <<>>) EXCEPT
                       !.calls = IF isActive THEN CaptureCalls(cb) ELSE <<>>]
          /\ nFailed' = nFailed + Failures(cb)
    /\ IF isActive /\ sessionPromise # 0 /\ promise[sessionPromise] = "pending"
       THEN queued' = [queued EXCEPT ![sessionPromise] = Append(@, nBlocks + 1)]
       ELSE UNCHANGED queued
    /\ IF isActive /\ sessionPromise # 0 /\ promise[sessionPromise] = "resolved"
       THEN sent' = [sent EXCEPT ![sessionPromise] = Append(@, nBlocks + 1)]
       ELSE UNCHANGED sent
    /\ UNCHANGED <<aistudio, turn, other, uiVars, suspended, resuming, isActive, inputContext, outputContext, playVars, stream,
                   pipeVars, sessionPromise, status, details, pc, acquired, released,
                   rs, promise, clock, nDisc, ran, tornDown, sinceDisc>>

\* A faulty on-close: it reports idle and leaves the teardown out.
oncloseReportOnly(r) ==
    /\ rs[r] \in {"connecting", "open", "errored"}
    /\ rs' = [rs EXCEPT ![r] = "closed"]
    /\ status' = "idle" /\ details' = ""
    /\ fx' = Fx(r, {}, <<<<"idle", "">>>>)
    /\ UNCHANGED <<aistudio, turn, other, uiVars, suspended, resuming, isActive, inputContext, outputContext, playVars, stream,
                   pipeVars, sessionPromise, pc, acquired, released, promise, queued, sent,
                   clock, nDisc, nBlocks, nFailed, ran, tornDown, sinceDisc>>

\* Lines 376-379: on-close.
onclose(r) ==
    /\ rs[r] \in {"connecting", "open", "errored"}
    /\ rs' = [rs EXCEPT ![r] = "closed"]
    /\ disconnect
    /\ fx' = Fx(r, CloseRejections, <<<<"idle", "">>, <<"idle", "">>>>)
    /\ UNCHANGED <<nDisc, sinceDisc>>

\* Line 382: err.message || ''.
MessageOf(err) == IF err.has THEN err.text ELSE <<>>
\* 'Requested entity was not found', in the alphabet of Texts.
Marker == <<"a", "b">>
\* String.prototype.includes: the needle occurs at some position.
Includes(text, needle) ==
    \E i \in 1..(Len(text) - Len(needle) + 1) :
        SubSeq(text, i, i + Len(needle) - 1) = needle
\* A faulty line 383: every error is taken for a network failure.
ErrorDetailsGeneric(err) == "network"
\* Lines 382-387: the details reported for the error.
ErrorDetails(err) == IF Includes(MessageOf(err), Marker) THEN "key" ELSE "network"

\* Lines 380-389: on-error.
onerror(r, err) ==
    /\ rs[r] \in {"connecting", "open"}
    /\ rs' = [rs EXCEPT ![r] = "errored"]
    /\ disconnect
    /\ fx' = [Fx(r, CloseRejections, <<<<"error", ErrorDetails(err)>>, <<"idle", "">>>>)
                 EXCEPT !.err = err]
    /\ UNCHANGED <<nDisc, sinceDisc>>

\* ---------------------------------------------------------- handleMessage

Payloads ==
    {[dur |-> d, bad |-> "ok"] : d \in 0..MaxDur}
    \cup {[dur |-> 1, bad |-> "b64"], [dur |-> 1, bad |-> "pcm"]}

GoodPayloads == {p \in Payloads : p.bad = "ok"}

\* A faulty line 445: the clock's current time is taken, whatever the
\* accumulator holds.
StartFloorClock(nst, now) == now
\* Line 445.
StartFloor(nst, now) == Max(nst, now)
\* A faulty line 456: the accumulator is compared with the clock once more.
StartArgClock(nst) == Max(nst, clock)
\* Line 456: the time given to source.start().
StartArg(nst) == nst
\* A faulty line 457: the accumulator stays where it was.
AdvanceForgotten(nst, d) == nst
\* Line 457.
Advance(nst, d) == nst + d
\* Line 464: every handle of the pending set is stopped.
StopAll(ms, srcs) ==
    [m \in Msgs |-> IF m \in srcs THEN [ms[m] EXCEPT !.h = "stopped"] ELSE ms[m]]
\* A faulty line 465: the pending set keeps its handles.
ClearSourcesKept(srcs) == srcs
\* Line 465.
ClearSources(srcs) == {}
\* Line 466.
ResetStart(nst) == 0

\* Lines 463-467, run on the state the audio part left.
InterruptedPart(m, intr, ms, srcs, nst, rd) ==
    IF intr
    THEN /\ msg' = StopAll(ms, srcs)
         /\ sources' = ClearSources(srcs)
         /\ nextStartTime' = ResetStart(nst)
         /\ lastIntr' = Max(lastIntr, m)
         /\ epoch' = epoch + 1
         /\ rdMax' = 0
    ELSE /\ msg' = ms
         /\ sources' = srcs
         /\ nextStartTime' = nst
         /\ rdMax' = rd
         /\ UNCHANGED <<lastIntr, epoch>>

Done == [NoMsg EXCEPT !.st = "done"]
\* Line 460: the handler of a message whose payload failed to decode is done,
\* with no handle made.
Dropped(bad) == [Done EXCEPT !.bad = bad]
\* A faulty catch: it returns, so the rest of the handler is skipped.
AfterCatchReturns(intr) == FALSE
\* Lines 460-463: the catch logs and the handler goes on to the test of
\* interrupted.
AfterCatch(intr) == intr
\* A faulty handler: the handle is added to the set before the decode settles.
AfterFailureAdded(m, srcs) == srcs \cup {m}
\* Line 460: the catch leaves the pending set as it was.
AfterFailure(m, srcs) == srcs
\* A faulty handler: the output fragment is reported before the input one.
ReportedModelFirst(tr) ==
    (IF "model" \in tr THEN <<"model">> ELSE <<>>)
        \o (IF "user" \in tr THEN <<"user">> ELSE <<>>)
\* Lines 436-441: the calls of onTranscription for a message that carries the
\* fragments tr.
Reported(tr) ==
    (IF "user" \in tr THEN <<"user">> ELSE <<>>)
        \o (IF "model" \in tr THEN <<"model">> ELSE <<>>)
IntrTag(b) == IF b THEN {"interrupt"} ELSE {}
TrTags(tr) == {IF x = "user" THEN "tr_user" ELSE "tr_model" : x \in tr}

\* Lines 433-452: on-message up to the await of the decode.
handleMessage(r, m, p, intr, tr) ==
    /\ rs[r] = "open"
    /\ msg[m].st = "none"
    /\ \A k \in Msgs : k < m => msg[k].st # "none"
    /\ IF outputContext = 0 \/ ~isActive
       THEN /\ msg' = [msg EXCEPT ![m] = Done]
            /\ fx' = [Fx(r, {}, <<>>) EXCEPT !.frags = tr]
            /\ UNCHANGED <<nextStartTime, sources, lastIntr, epoch, rdMax>>
       ELSE /\ fx' = [Fx(r, TrTags(tr) \cup IntrTag(intr /\ (p.dur = 0 \/ p.bad = "b64")), <<>>)
                         EXCEPT !.frags = tr, !.tr = Reported(tr)]
            /\ IF p.dur = 0
               THEN InterruptedPart(m, intr, [msg EXCEPT ![m] = Done], sources, nextStartTime, rdMax)
               ELSE IF p.bad = "b64"
               THEN InterruptedPart(m, AfterCatch(intr), [msg EXCEPT ![m] = Dropped(p.bad)],
                         AfterFailure(m, sources),
                         StartFloor(nextStartTime, clock), Max(rdMax, clock))
               ELSE /\ msg' = [msg EXCEPT ![m] = [NoMsg EXCEPT !.st = "decoding",
                                  !.dur = p.dur, !.bad = p.bad, !.intr = intr,
                                  !.epR = epoch]]
                    /\ nextStartTime' = StartFloor(nextStartTime, clock)
                    /\ rdMax' = Max(rdMax, clock)
                    /\ UNCHANGED <<sources, lastIntr, epoch>>
    /\ UNCHANGED <<aistudio, turn, other, uiVars, suspended, resuming, isActive, inputContext, outputContext, stream, pipeVars,
                   sessionPromise, status, details, pc, acquired, released, netVars,
                   clock, nDisc, nBlocks, nFailed, ran, tornDown, sinceDisc>>

NSched == Cardinality({k \in Msgs : msg[k].ord > 0})

\* Lines 453-467: the decode settled and the handler resumes.
handleMessageDecoded(m) ==
    /\ msg[m].st = "decoding"
    /\ IF msg[m].bad = "pcm"
       THEN /\ fx' = Fx(0, IntrTag(msg[m].intr), <<>>)
            /\ InterruptedPart(m, AfterCatch(msg[m].intr),
                    [msg EXCEPT ![m] = Dropped(msg[m].bad)],
                    AfterFailure(m, sources), nextStartTime, rdMax)
       ELSE /\ fx' = Fx(0, {"schedule"} \cup IntrTag(msg[m].intr), <<>>)
            /\ InterruptedPart(m, msg[m].intr,
                    [msg EXCEPT ![m] = [@ EXCEPT !.st = "done", !.h = "scheduled",
                        !.start = StartArg(nextStartTime), !.at = clock,
                        !.ctx = outputContext, !.flo = rdMax, !.epS = epoch,
                        !.ord = NSched + 1]],
                    sources \cup {m}, Advance(nextStartTime, msg[m].dur), 0)
    /\ UNCHANGED <<aistudio, turn, other, uiVars, suspended, resuming, isActive, inputContext, outputContext, stream, pipeVars,
                   sessionPromise, status, details, pc, acquired, released, netVars,
                   clock, nDisc, nBlocks, nFailed, ran, tornDown, sinceDisc>>

\* Line 459: onended of a handle whose playback finished.
onended(m) ==
    /\ msg[m].h = "scheduled"
    /\ msg[m].ctx = outputContext
    /\ clock >= Max(msg[m].start, msg[m].at) + msg[m].dur
    /\ msg' = [msg EXCEPT ![m].h = "ended"]
    /\ sources' = sources \ {m}
    /\ fx' = Fx(0, {}, <<>>)
    /\ UNCHANGED <<aistudio, turn, other, uiVars, suspended, resuming, isActive, inputContext, outputContext, nextStartTime,
                   lastIntr, epoch, rdMax, stream, pipeVars, sessionPromise, status,
                   details, pc, acquired, released, netVars, clock, nDisc, nBlocks, nFailed,
                   ran, tornDown, sinceDisc>>

\* The output clock of outputContext advances while it is open.
Tick ==
    /\ outputContext # 0 /\ Open(<<"out", outputContext>>)
    /\ <<"out", outputContext>> \notin suspended
    /\ clock' = clock + 1
    /\ fx' = Fx(0, {}, <<>>)
    /\ UNCHANGED <<aistudio, turn, other, uiVars, suspended, resuming, isActive, inputContext, outputContext, playVars, stream,
                   pipeVars, sessionPromise, status, details, pc, acquired, released,
                   netVars, nDisc, nBlocks, nFailed, ran, tornDown, sinceDisc>>

Transcripts == SUBSET {"user", "model"}

\* ------------------------------------------------------- a second instance

\* A faulty class: the fields are static, so the instance that runs next
\* reads what the instance before it wrote.
Static(own, last) == last
\* Lines 319-327: the fields are instance members, so an instance reads what
\* it wrote itself.
Own(own, last) == own

\* The event loop goes from code of one LiveSession instance to code of the
\* other one: the variables above are those of the instance whose code runs.
SwitchInstance ==
    /\ turn' = turn + 1
    /\ other' = Fields
    /\ suspended' = Own(other.suspended, suspended)
    /\ resuming' = Own(other.resuming, resuming)
    /\ isActive' = Own(other.isActive, isActive)
    /\ inputContext' = Own(other.inputContext, inputContext)
    /\ outputContext' = Own(other.outputContext, outputContext)
    /\ nextStartTime' = Own(other.nextStartTime, nextStartTime)
    /\ sources' = Own(other.sources, sources)
    /\ stream' = Own(other.stream, stream)
    /\ processor' = Own(other.processor, processor)
    /\ inputSource' = Own(other.inputSource, inputSource)
    /\ sessionPromise' = Own(other.sessionPromise, sessionPromise)
    /\ status' = Own(other.status, status)
    /\ details' = Own(other.details, details)
    /\ pc' = Own(other.pc, pc)
    /\ acquired' = Own(other.acquired, acquired)
    /\ released' = Own(other.released, released)
    /\ pipeCtx' = Own(other.pipeCtx, pipeCtx)
    /\ rs' = Own(other.rs, rs)
    /\ promise' = Own(other.promise, promise)
    /\ queued' = Own(other.queued, queued)
    /\ sent' = Own(other.sent, sent)
    /\ msg' = Own(other.msg, msg)
    /\ clock' = Own(other.clock, clock)
    /\ nDisc' = Own(other.nDisc, nDisc)
    /\ nBlocks' = Own(other.nBlocks, nBlocks)
    /\ nFailed' = Own(other.nFailed, nFailed)
    /\ ran' = Own(other.ran, ran)
    /\ tornDown' = Own(other.tornDown, tornDown)
    /\ sinceDisc' = Own(other.sinceDisc, sinceDisc)
    /\ lastIntr' = Own(other.lastIntr, lastIntr)
    /\ epoch' = Own(other.epoch, epoch)
    /\ rdMax' = Own(other.rdMax, rdMax)
    /\ fx' = Fx(0, {}, <<>>)
    /\ UNCHANGED <<aistudio, uiVars>>

\* The clocks of a new pair that start suspended.
Suspensions == SUBSET {"in", "out"}

\* ------------------------------------------------- the Live Mode component

\* A faulty line 110: the role of the last turn is not looked at.
MergesAnyRole(prev, role) ==
    Len(prev) > 0 /\ prev[Len(prev)].len < Threshold
\* Line 110 of the component: last && last.role === role && last.text.length < 150.
Merges(prev, role) ==
    /\ Len(prev) > 0
    /\ prev[Len(prev)].role = role
    /\ prev[Len(prev)].len < Threshold

\* Line 112: the length of last.text + (text.startsWith(' ') ? '' : ' ') + text.
MergedLen(lastLen, len, sp) == lastLen + (IF sp THEN 0 ELSE 1) + len

\* Lines 105-116: the updater given to setTranscripts, for a fragment of len
\* characters that starts with a space or not (sp).
Updated(prev, len, sp, role) ==
    IF Merges(prev, role)
    THEN [prev EXCEPT ![Len(prev)] =
             [@ EXCEPT !.len = MergedLen(@, len, sp)]]
    ELSE Append(prev, [role |-> role, len |-> len])

\* The lengths of the fragments delivered, around the threshold.
FragLens == {0, 1, Threshold - 2, Threshold - 1, Threshold}

\* Lines 104-117: the onTranscription callback given to the session.
onTranscription(len, sp, role) ==
    /\ sp => len > 0
    /\ ui.n < MaxFrags
    /\ transcripts' = Updated(transcripts, len, sp, role)
    /\ Len(transcripts') <= MaxTurnsShown
    /\ ui' = [op |-> "fragment", role |-> role, len |-> len, sp |-> sp, n |-> ui.n + 1]
    /\ UNCHANGED <<sessionVars, chatVars, codecVars>>

\* Lines 100-103: the status callback LiveMode gives the session, applied to
\* the reports one step of the session made, in their order.  setStatus is
\* called for every report, setErrorMessage for those that carry details.
setStatus(prev, reports) ==
    IF reports = <<>> THEN prev ELSE reports[Len(reports)][1]
RECURSIVE setErrorMessage(_, _)
setErrorMessage(prev, reports) ==
    IF reports = <<>> THEN prev
    ELSE LET last == reports[Len(reports)]
         IN IF last[2] # "" THEN last[2]
            ELSE setErrorMessage(prev, SubSeq(reports, 1, Len(reports) - 1))

\* Lines 129-140: toggleSession while the status is neither connected nor
\* connecting: the list is emptied and connect() called.
toggleSessionStart ==
    /\ transcripts' = <<>>
    /\ ui' = [NoUi EXCEPT !.op = "start"]
    /\ UNCHANGED <<sessionVars, chatVars, codecVars>>

NextLiveMode ==
    \/ \E len \in FragLens, sp \in BOOLEAN, role \in {"user", "model"} :
          onTranscription(len, sp, role)
    \/ toggleSessionStart
SpecLiveMode == Init /\ [][NextLiveMode]_vars

\* --------------------------------------------- the temporary chat component

\* JSON.stringify of a message list: the text of the array, one token for
\* the role and one for the text of each message.
Stringify(list) ==
    [i \in 1..(2 * Len(list)) |->
        IF i % 2 = 1 THEN list[(i + 1) \div 2].role ELSE list[i \div 2].text]
\* JSON.parse of such a text.
Parse(json) ==
    [i \in 1..(Len(json) \div 2) |-> [role |-> json[2 * i - 1], text |-> json[2 * i]]]

\* Lines 15-22: the initialiser of the messages state.
InitialMessages(saved) == IF saved.has THEN Parse(saved.json) ELSE <<>>

\* Lines 28-30: the effect that runs after every change of messages.
Saved(list) == [has |-> TRUE, json |-> Stringify(list)]

Questions == {"q1", "q2"}
Answers == {"a", ""}
\* Line 63: response.text || "No response."
AnswerText(text) == IF text = "" THEN "No response." ELSE text

\* Line 39: isLoading is the constant of the render that made this
\* handleSend (line 24), not the state as the calls of setIsLoading since
\* then have left it.
LoadingSeen(now, seen) == seen

\* Lines 38-57: handleSend up to the await, for a call that passes the guard
\* of line 39 (a call that does not pass it returns and changes nothing).
handleSend(text) ==
    /\ ~LoadingSeen(isLoading, rendered)
    /\ Len(messages) < MaxChat /\ inFlight < MaxInFlight
    /\ messages' = Append(messages, [role |-> "user", text |-> text])
    /\ storage' = Saved(messages')
    /\ isLoading' = TRUE
    /\ inFlight' = inFlight + 1
    /\ ui' = [NoUi EXCEPT !.op = "send"]
    /\ UNCHANGED <<sessionVars, liveModeVars, codecVars, rendered>>

\* Lines 11-38: the component renders again after a state change; the
\* handlers it makes read the isLoading of this render.
Render ==
    /\ rendered # isLoading
    /\ rendered' = isLoading
    /\ ui' = [NoUi EXCEPT !.op = "render"]
    /\ UNCHANGED <<sessionVars, liveModeVars, codecVars, messages, isLoading, inFlight,
                   storage>>

\* Lines 59-74: the request settled (answer "failed" when it was rejected).
handleSendSettled(answer) ==
    /\ inFlight > 0
    /\ messages' = Append(messages,
                      [role |-> "model",
                       text |-> IF answer = "failed" THEN "Error processing request."
                                ELSE AnswerText(answer)])
    /\ storage' = Saved(messages')
    /\ isLoading' = FALSE
    /\ inFlight' = inFlight - 1
    /\ ui' = [NoUi EXCEPT !.op = "settled"]
    /\ UNCHANGED <<sessionVars, liveModeVars, codecVars, rendered>>

\* Lines 77-80.
clearChat ==
    /\ messages' = <<>>
    /\ storage' = Saved(messages')
    /\ ui' = [NoUi EXCEPT !.op = "clear"]
    /\ UNCHANGED <<sessionVars, liveModeVars, codecVars, isLoading, rendered, inFlight>>

\* The page is reloaded: the component is initialised again (lines 12-30) and
\* a request in flight is gone with the old page.
Reload ==
    /\ messages' = InitialMessages(storage)
    /\ storage' = Saved(messages')
    /\ isLoading' = FALSE
    /\ rendered' = FALSE
    /\ inFlight' = 0
    /\ ui' = [NoUi EXCEPT !.op = "reload"]
    /\ UNCHANGED <<sessionVars, liveModeVars, codecVars>>

NextChat ==
    \/ \E q \in Questions : handleSend(q)
    \/ \E a \in Answers \cup {"failed"} : handleSendSettled(a)
    \/ clearChat
    \/ Render
    \/ Reload
SpecChat == Init /\ [][NextChat]_vars

\* ------------------------------------------------------------- the codec

\* A sample x is held as the integer x * Scale * Steps, so 1.0 is
\* Scale * Steps and one 16-bit step is Steps.
One == Scale * Steps

\* Round to the nearest integer, halves upwards.
Round(n) == (2 * n + Steps) \div (2 * Steps)

\* A faulty encoder: the value is stored as a 16-bit integer without a
\* range check, so it wraps around modulo 2^16.
ClampWrapped(v) == ((v + 32768) % 65536) - 32768
\* Out-of-range values are clamped to the 16-bit range.
Clamp(v) == IF v > 32767 THEN 32767 ELSE IF v < -32768 THEN -32768 ELSE v

\* A faulty writer: the high byte first.
ToBytesBigEndian(v) == LET u == v % 65536 IN <<u \div 256, u % 256>>
\* A 16-bit signed value as two bytes, little-endian.
ToBytes(v) == LET u == v % 65536 IN <<u % 256, u \div 256>>
\* Two little-endian bytes as a 16-bit signed value.
FromBytes(lo, hi) == LET u == lo + 256 * hi IN IF u >= 32768 THEN u - 65536 ELSE u

\* encode: each sample scaled, rounded, clamped and written as two bytes.
createPcmBlob(block) ==
    [i \in 1..(2 * Len(block)) |->
        ToBytes(Clamp(Round(block[(i + 1) \div 2])))[IF i % 2 = 1 THEN 1 ELSE 2]]

\* decode: fails when the bytes are not a whole number of 16-bit frames,
\* else each frame read back and scaled to [-1, 1).
decodeAudioData(bytes) ==
    IF Len(bytes) % 2 = 1
    THEN [done |-> TRUE, err |-> TRUE, data |-> <<>>]
    ELSE [done |-> TRUE, err |-> FALSE,
          data |-> [i \in 1..(Len(bytes) \div 2) |->
                       FromBytes(bytes[2 * i - 1], bytes[2 * i]) * Steps]]

\* Sample values: around 0, around a half, around -1 and 1, and out of range
\* up to beyond 2.
SampleValues ==
    (-(Steps + 1))..(Steps + 1)
    \cup {One \div 2 + k : k \in (-Steps)..Steps}
    \cup {s * (One - k) : s \in {-1, 1}, k \in (-(Steps + 1))..(Steps + 1)}
    \cup {s * (2 * One + k) : s \in {-1, 1}, k \in {-1, 0, 1, Steps}}
    \cup {s * 3 * One : s \in {-1, 1}}
Blocks == UNION {[1..n -> SampleValues] : n \in 0..MaxSamples}

InitCodec == InitWith(Blocks)

\* The block is encoded (line 423).
Encode ==
    /\ ~pcm.done
    /\ pcm' = [done |-> TRUE, err |-> FALSE, data |-> createPcmBlob(samples)]
    /\ UNCHANGED <<sessionVars, liveModeVars, chatVars, ui, samples, decoded>>

\* The bytes are decoded (lines 447-452).
Decode ==
    /\ pcm.done /\ ~decoded.done
    /\ decoded' = decodeAudioData(pcm.data)
    /\ UNCHANGED <<sessionVars, liveModeVars, chatVars, ui, samples, pcm>>

NextCodec == Encode \/ Decode
SpecCodec == InitCodec /\ [][NextCodec]_vars

\* connect() calls and the promises connect() awaits up to the microphone,
\* sps being the ways the new clocks may start.
CallActions(nc, sps) ==
    \/ \E a \in 1..nc, sp \in sps : connect(a, sp)
    \/ \E a \in Attempts, k \in BOOLEAN, sp \in sps : HasKeyResolved(a, k, sp)
    \/ \E a \in Attempts, sp \in sps : SelectKeyResolved(a, sp)
    \/ \E a \in Attempts : GetUserMediaResolved(a, FALSE, "")
    \/ \E a \in Attempts, e \in ErrMessages : GetUserMediaRejected(a, e)

\* connect() calls and the promises connect() awaits.
ConnectActions(nc) ==
    \/ CallActions(nc, Suspensions)
    \/ \E a \in Attempts : ResumeResolved(a, FALSE, "")

\* The setup steps of connect() that fail, other than the microphone request.
SetupFailureActions(nc) ==
    \/ \E a \in Attempts : PrecheckRejected(a)
    \/ \E a \in 1..nc, at \in {"in", "out"} : ClockCreationThrows(a, at)
    \/ \E a \in Attempts, e \in ErrMessages : ResumeRejected(a, e)
    \/ \E a \in Attempts, e \in ErrMessages : GetUserMediaResolved(a, TRUE, e)
    \/ \E a \in Attempts, e \in ErrMessages : ResumeResolved(a, TRUE, e)

\* One error of each class of lines 383-387.
ErrorClasses == {NoError, [has |-> TRUE, text |-> Marker]}

\* The close and error callbacks of the remote streams.
StreamEndActions(errs) ==
    \/ \E r \in Attempts : onclose(r)
    \/ \E r \in Attempts, e \in errs : onerror(r, e)

\* Inbound messages, their decodes and handles, and the output clock.
PlayActions(nm, pl, trs, ck) ==
    \/ \E r \in Attempts, m \in 1..nm, p \in pl, i \in BOOLEAN, tr \in trs :
          handleMessage(r, m, p, i, tr)
    \/ \E m \in Msgs : handleMessageDecoded(m)
    \/ \E m \in Msgs : onended(m)
    \/ clock < ck /\ Tick

\* Captured blocks and the sends chained on the stream promise.
CaptureActions(nb) ==
    \/ \E r \in Attempts, ok \in BOOLEAN : PromiseResolved(r, ok)
    \/ \E r \in Attempts : PromiseRejected(r)
    \/ \E p \in Attempts, ok \in BOOLEAN : nBlocks < nb /\ onaudioprocess(p, ok)

Next ==
    \/ ConnectActions(OneCall)
    \/ SetupFailureActions(OneCall)
    \/ nDisc < OneCall /\ CallDisconnect
    \/ \E r \in Attempts : handleOpen(r)
    \/ StreamEndActions(Errors)
    \/ PlayActions(OneMsg, Payloads, Transcripts, OneTick)
    \/ CaptureActions(MaxBlocks)
Spec == Init /\ [][Next]_vars

\* The lifecycle alone: no message, block or clock tick.
NextLife ==
    \/ ConnectActions(MaxConnects)
    \/ SetupFailureActions(MaxConnects)
    \/ nDisc < MaxDisconnects /\ CallDisconnect
    \/ \E r \in Attempts : handleOpen(r)
    \/ StreamEndActions(ErrorClasses)
SpecLife == Init /\ [][NextLife]_vars

\* Playback: messages with decodable audio and no transcript, torn down by
\* disconnect() (on-close and on-error run the same teardown).
NextPlay ==
    \/ ConnectActions(OneCall)
    \/ nDisc < OneCall /\ CallDisconnect
    \/ \E r \in Attempts : handleOpen(r)
    \/ PlayActions(MaxMsgs, GoodPayloads, {{}}, MaxClock)
SpecPlay == Init /\ [][NextPlay]_vars

\* Decode failures: two messages of any kind, captured blocks, one clock tick.
NextDecode ==
    \/ ConnectActions(OneCall)
    \/ \E r \in Attempts : handleOpen(r)
    \/ PlayActions(TwoMsgs, Payloads, Transcripts, OneTick)
    \/ CaptureActions(MaxBlocks)
SpecDecode == Init /\ [][NextDecode]_vars

\* The capture loop: several blocks, sends that fail, a stream promise that
\* rejects.
NextCapture ==
    \/ ConnectActions(OneCall)
    \/ nDisc < OneCall /\ CallDisconnect
    \/ \E r \in Attempts : handleOpen(r)
    \/ CaptureActions(MaxSends)
SpecCapture == Init /\ [][NextCapture]_vars

\* Playback over a reconnect: two connect() calls, one disconnect(), two
\* messages with decodable audio.
NextReplay ==
    \/ ConnectActions(MaxConnects)
    \/ nDisc < OneCall /\ CallDisconnect
    \/ \E r \in Attempts : handleOpen(r)
    \/ PlayActions(TwoMsgs, GoodPayloads, {{}}, OneTick)
SpecReplay == Init /\ [][NextReplay]_vars

\* Two instances: each is connected once (its clocks start running), gets
\* one message with a chunk of audio and one captured block, and is ended by
\* disconnect(), on-close or on-error; the code that runs changes from one
\* instance to the other.
NextPair ==
    \/ CallActions(OneCall, {{}})
    \/ nDisc < OneCall /\ CallDisconnect
    \/ \E r \in Attempts : handleOpen(r)
    \/ StreamEndActions(ErrorClasses)
    \/ \E r \in Attempts, m \in 1..OneMsg, i \in BOOLEAN :
          handleMessage(r, m, [dur |-> 1, bad |-> "ok"], i, {})
    \/ \E m \in Msgs : handleMessageDecoded(m)
    \/ \E p \in Attempts : nBlocks < MaxBlocks /\ onaudioprocess(p, TRUE)
    \/ turn < MaxTurns /\ SwitchInstance
SpecPair == Init /\ [][NextPair]_vars

\* ================================================================ claims

\* C1 (checked under SpecLife): at most one connect attempt proceeds at a
\* time: of the connect() calls that got past the guard and created the
\* audio clocks, at most one has not been torn down since.
C1_OneAttemptProceeds == Cardinality(ran \ tornDown) <= 1

\* C2 (SpecLife): after a disconnect() called while connect() awaited the
\* microphone or the stream handshake, and until connect() is called again,
\* the status reported to the owner is idle.
C2_IdleAfterDisconnect ==
    sinceDisc \in {"microphone", "handshake"} => status = "idle"

\* C3 (SpecPlay): no audio chunk received before an interruption message is
\* started or left playing once that interruption has been handled.
C3_NoAudioAfterInterruption ==
    \A m \in Msgs : msg[m].h = "scheduled" => m > lastIntr

\* C4 (SpecPlay): a step that handles interrupted=true leaves every handle of
\* the pending set stopped, no handle scheduled, the pending set empty and
\* nextStartTime 0.
C4_InterruptionClears ==
    [][ "interrupt" \in fx'.cb =>
           /\ \A m \in sources : msg'[m].h = "stopped"
           /\ \A m \in Msgs : msg'[m].h # "scheduled"
           /\ sources' = {}
           /\ nextStartTime' = 0 ]_vars

\* C4 witness: an interruption has just been handled that stopped two handles.
C4_Witness ==
    /\ "interrupt" \in fx.cb
    /\ Cardinality({m \in Msgs : msg[m].h = "stopped"}) >= 2

RECURSIVE SumDur(_)
SumDur(S) == IF S = {} THEN 0
             ELSE LET m == CHOOSE x \in S : TRUE IN msg[m].dur + SumDur(S \ {m})

\* The chunks received and started with nextStartTime reset e times before.
StartedIn(e) == {m \in Msgs : msg[m].h # "none" /\ msg[m].epR = e /\ msg[m].epS = e}
\* They were started in the order received, none overtaken by a later one.
InOrder(e) ==
    /\ \A j, k \in StartedIn(e) : j < k => msg[j].ord < msg[k].ord
    /\ \A j \in Msgs, k \in StartedIn(e) : j < k => msg[j].st # "decoding"
Epochs == 0..(MaxMsgs + MaxConnects)

C6_OrderedNoOverlap ==
    \A j, k \in Msgs :
        (j < k /\ \E e \in Epochs : {j, k} \subseteq StartedIn(e))
            => msg[j].start + msg[j].dur <= msg[k].start

\* Nothing of the session is in flight: the flag is clear, no connect() call
\* is suspended and no message handler is suspended in a decode.
Quiescent ==
    /\ ~isActive
    /\ \A a \in Attempts : pc[a] \in {"new", "noop", "done", "failed"}
    /\ \A m \in Msgs : msg[m].st # "decoding"

\* C7 (SpecLife): once the session is inactive and nothing is in flight,
\* every resource connect() acquired has been released.
C7_AllReleased == Quiescent => \A x \in acquired : released[x] >= 1

\* C8 (SpecLife): no resource is released more than once.
C8_ReleasedOnce == \A x \in Resources : released[x] <= 1

\* C9 (Spec): once the active flag is clear, no step makes a volume or
\* transcript callback, transmits a chunk or schedules audio.
C9_InactiveNoEffect ==
    [][ ~isActive =>
          fx'.cb \cap {"volume", "tr_user", "tr_model", "send", "schedule"} = {} ]_vars

\* C10 (SpecLife): a callback of the stream of an attempt that has been torn
\* down changes nothing of a session that a later connect() started.
C10_StaleCallbackInert ==
    [][ (fx'.r # 0 /\ fx'.r \in tornDown
           /\ \E b \in ran \ tornDown : b > fx'.r)
        => UNCHANGED <<status, isActive, nextStartTime, sources, acquired, released>> ]_vars

\* C11 (SpecLife): when getUserMedia is rejected, the catch reports error
\* once with non-empty details right after connecting (when no other call
\* came in between), clears the active flag and opens no stream for the
\* attempt, then or later; and a connect() called while the flag is clear is
\* never a no-op.
C11_MicDenied ==
    /\ [](\A a \in Attempts : pc[a] = "failed" => rs[a] = "none")
    /\ [][ /\ \A a \in Attempts : (pc[a] = "getUserMedia" /\ pc'[a] = "failed") =>
                /\ Len(fx'.st) = 1 /\ fx'.st[1][1] = "error" /\ fx'.st[1][2] # ""
                /\ status' = "error" /\ details' # ""
                /\ (nDisc = 0 /\ ran = {a}) => status = "connecting"
                /\ isActive' = FALSE
                /\ rs' = rs /\ sessionPromise' = sessionPromise
           /\ \A b \in Attempts : (~isActive /\ pc[b] = "new" /\ pc'[b] # "new")
                                       => pc'[b] # "noop" ]_vars

\* C11 witness: the first attempt failed on the microphone with an error that
\* carried no message, and a second connect(), called afterwards, got past
\* the guard.
C11_Witness ==
    /\ ~aistudio /\ nDisc = 0
    /\ pc[1] = "failed" /\ 2 \in ran
    /\ \E a \in Attempts : pc[a] = "failed" /\ details = "Microphone access denied."

\* C12 (SpecLife): whichever setup step of connect() fails, that step reports
\* status error with a non-empty reason, leaves the active flag false and
\* opens no stream for the attempt.
C12_SetupFailureReported ==
    [][ \A a \in Attempts : (pc[a] # "failed" /\ pc'[a] = "failed") =>
            /\ Len(fx'.st) = 1 /\ fx'.st[1][1] = "error" /\ fx'.st[1][2] # ""
            /\ isActive' = FALSE
            /\ rs'[a] = "none" ]_vars

\* The message of the error has the marker somewhere in it.
HasMarker(err) ==
    err.has /\ \E p, q \in Texts : err.text = p \o Marker \o q

\* C13 (Spec): a step that handles on-error reports error exactly once,
\* with the credential details if and only if the error's message contains
\* the marker and the network details otherwise (also without a message),
\* and the teardown runs after that report.
C13_ErrorClassified ==
    [][ \A r \in Attempts : (rs[r] # "errored" /\ rs'[r] = "errored") =>
            /\ Len(fx'.st) = 2
            /\ fx'.st[1] = <<"error", IF HasMarker(fx'.err) THEN "key" ELSE "network">>
            /\ fx'.st[2] = <<"idle", "">>
            /\ ~isActive' /\ sessionPromise' = 0
            /\ \A x \in Held : released'[x] = released[x] + 1 ]_vars

\* C13 witness: an on-error whose message has the marker after other text
\* was reported with the credential details.
C13_Witness ==
    /\ fx.r # 0 /\ fx.err = [has |-> TRUE, text |-> <<"b", "a", "b">>]
    /\ Len(fx.st) = 2 /\ fx.st[1] = <<"error", "key">>

\* C14 (SpecLife): a step that handles on-error or on-close leaves the
\* active flag false, the stream handle dropped and idle as the last status
\* reported; on-close reports idle first and the teardown's report follows.
C14_EndsIdle ==
    [][ \A r \in Attempts :
          (rs'[r] # rs[r] /\ rs'[r] \in {"errored", "closed"}) =>
            /\ ~isActive' /\ sessionPromise' = 0
            /\ status' = "idle"
            /\ Len(fx'.st) = 2 /\ fx'.st[2] = <<"idle", "">>
            /\ rs'[r] = "closed" => fx'.st[1] = <<"idle", "">>
            /\ \A x \in Held : released'[x] > released[x] ]_vars

\* C14 witness: the server closed the stream of a connected session whose
\* capture pipeline was running.
C14_Witness ==
    /\ fx.r # 0 /\ rs[fx.r] = "closed"
    /\ processor = fx.r /\ stream = fx.r
    /\ fx.st = <<<<"idle", "">>, <<"idle", "">>>>
    /\ ~isActive /\ sessionPromise = 0

\* C15 (SpecDecode): a step in which the handler of a message with an
\* undecodable payload finishes changes neither the active flag nor the status
\* nor the stream, schedules nothing, adds no handle to the pending set, and
\* leaves nextStartTime where line 445 put it (0 if the message also carried
\* interrupted).
C15_BadPayloadDropped ==
    [][ \A m \in Msgs :
          (msg[m].st # "done" /\ msg'[m].st = "done" /\ msg'[m].bad # "ok") =>
            /\ isActive' = isActive /\ status' = status /\ rs' = rs
            /\ "schedule" \notin fx'.cb
            /\ msg'[m].h = "none" /\ sources' \subseteq sources
            /\ nextStartTime' = IF "interrupt" \in fx'.cb THEN 0
                                ELSE IF msg[m].st = "none"
                                     THEN Max(nextStartTime, clock)
                                     ELSE nextStartTime ]_vars

\* C15 witness: after a message whose payload failed to decode, the session
\* is still connected and the next message's transcript has just been
\* reported.
C15_Witness ==
    /\ msg[1].st = "done" /\ msg[1].bad # "ok"
    /\ msg[2].st # "none" /\ fx.r # 0 /\ "tr_model" \in fx.cb
    /\ isActive /\ status = "connected"

\* C16 (SpecCapture): a transmission that fails is swallowed: no failure is
\* left unhandled, and the step it fails in reports no status and changes
\* neither the active flag nor the stream handle nor the capture pipeline;
\* and every block captured while the flag is set is measured and, when
\* there is a stream handle, offered for transmission.
C16_SendFailureSwallowed ==
    [][ /\ "unhandled" \notin fx'.cb
        /\ "send_failed" \in fx'.cb =>
              /\ fx'.st = <<>> /\ status' = status /\ isActive' = isActive
              /\ UNCHANGED <<sessionPromise, processor, inputSource, released>>
        /\ (nBlocks' = nBlocks + 1 /\ isActive) =>
              /\ "volume" \in fx'.cb
              /\ sessionPromise # 0 =>
                    \/ fx'.cb \cap {"send", "send_failed"} # {}
                    \/ Len(queued'[sessionPromise]) = Len(queued[sessionPromise]) + 1 ]_vars

\* C16 witness: a block has just been measured and transmitted after the
\* transmission of an earlier one had failed.
C16_Witness ==
    /\ nFailed >= 1 /\ fx.cb = {"volume", "send"}
    /\ isActive /\ status = "connected"

\* Attempt a is the only one so far and nothing has ended or torn it down.
Undisturbed(a) ==
    /\ ran = {a} /\ tornDown = {} /\ nDisc = 0
    /\ \A q \in Attempts : rs[q] \in {"none", "connecting", "open"}
    /\ \A b \in Attempts : b # a => pc[b] \in {"new", "noop"}

\* C17 (SpecLife): for a connect() that succeeds undisturbed, on-open
\* reports connected, once, and the status reported last before it is
\* connecting; connecting is reported once per attempt that gets past the
\* guard and by no other step.
C17_ConnectingThenConnected ==
    [][ /\ \A r \in Attempts :
              (rs[r] = "connecting" /\ rs'[r] = "open" /\ Undisturbed(r)) =>
                  /\ status = "connecting"
                  /\ fx'.st = <<<<"connected", "">>>> /\ status' = "connected"
        /\ \A i \in 1..Len(fx'.st) : fx'.st[i][1] = "connecting" =>
              /\ Len(fx'.st) = 1
              /\ Cardinality(ran') = Cardinality(ran) + 1
        /\ \A i \in 1..Len(fx'.st) : fx'.st[i][1] = "connected" =>
              /\ Len(fx'.st) = 1
              /\ fx'.r # 0 /\ rs[fx'.r] = "connecting" /\ rs'[fx'.r] = "open" ]_vars

\* C17 witness: the only attempt went through and its on-open has just
\* reported connected.
C17_Witness ==
    /\ \E r \in Attempts : fx.r = r /\ rs[r] = "open" /\ Undisturbed(r) /\ pc[r] = "done"
    /\ fx.st = <<<<"connected", "">>>> /\ status = "connected"

\* C18 (SpecLife): the step that calls getUserMedia has reported connecting
\* before the call; the step that opens the remote stream finds the
\* microphone stream granted and neither clock of the session suspended; and
\* a block is delivered only by a pipeline that an on-open built, and
\* measured or offered for transmission only when the session's stream has
\* had its on-open.
C18_SetupOrder ==
    [][ /\ \A a \in Attempts : (pc[a] # "getUserMedia" /\ pc'[a] = "getUserMedia") =>
              /\ fx'.mic >= 1 /\ fx'.mic <= Len(fx'.st)
              /\ fx'.st[fx'.mic][1] = "connecting"
        /\ fx'.mic # -1 => \E a \in Attempts : pc[a] # "getUserMedia" /\ pc'[a] = "getUserMedia"
        /\ \A a \in Attempts : (rs[a] = "none" /\ rs'[a] # "none") =>
              /\ <<"mic", a>> \in acquired' /\ stream' # 0
              /\ pc[a] \in {"getUserMedia", "resumeIn", "resumeOut"}
              /\ <<"in", inputContext'>> \notin suspended'
              /\ <<"out", outputContext'>> \notin suspended'
        /\ nBlocks' = nBlocks + 1 =>
              /\ \E p \in Attempts : <<"pipe", p>> \in acquired
                                        /\ rs[p] \in {"open", "errored", "closed"}
              /\ (fx'.cb # {} /\ sessionPromise # 0) =>
                     rs[sessionPromise] \in {"open", "errored", "closed"} ]_vars

\* C19 (SpecLife): a disconnect() call, in whatever state, leaves no
\* rejection unhandled and ends with the active flag false, the stream handle
\* dropped and status idle; called right after another disconnect() it
\* changes nothing of the session's fields or of the status.
C19_DisconnectIdempotent ==
    [][ nDisc' = nDisc + 1 =>
          /\ "unhandled" \notin fx'.cb
          /\ ~isActive' /\ sessionPromise' = 0 /\ status' = "idle" /\ details' = ""
          /\ fx'.st = <<<<"idle", "">>>>
          /\ (fx.r = 0 /\ fx.st = <<<<"idle", "">>>>) =>
                UNCHANGED <<isActive, sessionPromise, status, details, inputContext,
                            outputContext, stream, processor, inputSource,
                            nextStartTime, sources>> ]_vars

\* C19 witness: a connected session has been disconnected twice in a row;
\* the second call found both clocks closed.
C19_Witness ==
    /\ nDisc = 2 /\ fx.r = 0 /\ fx.st = <<<<"idle", "">>>>
    /\ "close_rejected" \in fx.cb
    /\ processor # 0 /\ \A x \in Held : released[x] = 2

\* C20 as stated (SpecReplay): nextStartTime decreases in no step other than
\* one that handles an interruption.
C20_OnlyInterruptionLowers ==
    [][ nextStartTime' < nextStartTime => "interrupt" \in fx'.cb ]_vars

\* C20 amended (SpecReplay): nextStartTime decreases only in a step that
\* handles an interruption or in the step of connect() that creates the new
\* clocks, and then to 0.
C20_LoweredOnlyByReset ==
    [][ nextStartTime' < nextStartTime =>
          /\ nextStartTime' = 0
          /\ \/ "interrupt" \in fx'.cb
             \/ \E a \in Attempts : a \notin ran /\ a \in ran'
                                      /\ outputContext' = a /\ clock' = 0 ]_vars

\* C20 witness: connect() has just started a second session after audio was
\* scheduled in the first and no interruption was handled: the accumulator
\* is back at 0.
C20_Witness ==
    /\ ran = {1, 2} /\ fx.mic >= 1 /\ lastIntr = 0
    /\ \E m \in Msgs : msg[m].h # "none" /\ msg[m].dur > 0 /\ msg[m].ctx = 1
    /\ nextStartTime = 0 /\ outputContext = 2

\* The last status reported for a session that ran is idle or error, and the
\* owner has not called connect() since: either no connect() call is
\* suspended, or the last call of the owner was disconnect().
Ended ==
    /\ ran # {} /\ status \in {"idle", "error"}
    /\ \/ sinceDisc # "no"
       \/ \A a \in Attempts : pc[a] \in {"new", "noop", "done", "failed"}

\* C21 (Spec): the remote streams opened are never more than the connect()
\* calls made, and once a session has ended in error or idle, no step other
\* than a connect() call of the owner reports connecting or connected.
C21_NoRetry ==
    /\ [](Cardinality({a \in Attempts : rs[a] # "none"})
              <= Cardinality({a \in Attempts : pc[a] # "new"}))
    /\ [][ (Ended /\ \A a \in Attempts : pc[a] = "new" => pc'[a] = "new") =>
              \A i \in 1..Len(fx'.st) : fx'.st[i][1] \notin {"connecting", "connected"} ]_vars

\* C22 (SpecLife): a connect() call that finds the flag clear goes on in
\* the same step when there is no precheck collaborator and awaits its answer
\* when there is one; an answer that a credential exists, and the return of
\* the credential dialog, make connect() go on; an answer that none exists
\* opens the dialog, once per call.  Going on is setting the active flag,
\* creating the clocks and, unless creating a clock throws, reporting
\* connecting and requesting the microphone.
C22_PrecheckNeverBlocks ==
    [][ /\ \A a \in Attempts : (pc[a] = "new" /\ pc'[a] # "new" /\ ~isActive) =>
              IF aistudio THEN pc'[a] = "hasKey" /\ fx'.pre = ""
                          ELSE fx'.pre = "absent"
        /\ \A a \in Attempts : (pc[a] = "hasKey" /\ pc'[a] # "hasKey") =>
              \/ fx'.pre = "asked" /\ pc'[a] = "selectKey"
              \/ fx'.pre = "has"
              \/ fx'.pre = "" /\ pc'[a] = "failed" /\ a \notin ran'
        /\ \A a \in Attempts : (pc[a] = "selectKey" /\ pc'[a] # "selectKey") =>
              \/ fx'.pre = "selected"
              \/ fx'.pre = "" /\ pc'[a] = "failed" /\ a \notin ran'
        /\ \A a \in Attempts : (pc[a] # "selectKey" /\ pc'[a] = "selectKey") =>
              pc[a] = "hasKey"
        /\ fx'.pre \in {"absent", "has", "selected"} =>
              \E a \in Attempts :
                  /\ pc[a] \in {"new", "hasKey", "selectKey"}
                  /\ a \notin ran /\ a \in ran' /\ isActive'
                  /\ pc'[a] \in {"getUserMedia", "failed"}
                  /\ pc'[a] = "getUserMedia" =>
                        /\ fx'.st = <<<<"connecting", "">>>> /\ status' = "connecting"
                        /\ inputContext' = a /\ outputContext' = a ]_vars

\* C22 witness: the precheck of the second connect() call found no credential,
\* the dialog returned, and the call has just reported connecting.
C22_Witness ==
    /\ aistudio /\ fx.pre = "selected" /\ pc[2] = "getUserMedia"
    /\ status = "connecting" /\ isActive /\ pc[1] = "failed"

\* C23 (SpecPair): a step of one instance (connect(), disconnect(), on-open,
\* on-message, on-close, on-error, a captured block, a promise that settles)
\* leaves the active flag, the status, nextStartTime, the pending set, the
\* resources and every other field of the other instance as they were, and
\* the other instance finds them so when its code runs next.
C23_InstancesIsolated ==
    [][ IF turn' = turn
        THEN other' = other
        ELSE Fields' = other /\ other' = Fields ]_vars

\* C23 witness: one instance is connected and has scheduled audio while the
\* other, connected before it, has been disconnected and its resources
\* released.
C23_Witness ==
    /\ turn >= 1
    /\ isActive /\ status = "connected" /\ sources # {} /\ nextStartTime > 0
    /\ ~other.isActive /\ other.status = "idle" /\ other.nDisc = 1
    /\ other.processor # 0 /\ other.released[<<"pipe", 1>>] = 1

\* C24 (Spec): the step that receives a message while the flag is set calls
\* onTranscription once with user when the message carries an input fragment
\* and once with model when it carries an output fragment, user first, and
\* schedules no audio itself (the audio is scheduled by a later step); a step
\* that receives a message while the flag is clear, and every step that
\* receives none, calls onTranscription not at all.
C24_TranscriptsReported ==
    [][ LET received == \E m \in Msgs : msg[m].st = "none" /\ msg'[m].st # "none"
        IN /\ (received /\ isActive) =>
                 /\ Len(fx'.tr) = Cardinality(fx'.frags)
                 /\ \A x \in fx'.frags : \E i \in 1..Len(fx'.tr) : fx'.tr[i] = x
                 /\ Len(fx'.tr) = 2 => fx'.tr[1] = "user" /\ fx'.tr[2] = "model"
                 /\ "schedule" \notin fx'.cb
                 /\ \A m \in Msgs : msg[m].st = "none" => msg'[m].h = "none"
           /\ (~received \/ ~isActive) => fx'.tr = <<>>
           /\ ("tr_user" \in fx'.cb) = (\E i \in 1..Len(fx'.tr) : fx'.tr[i] = "user")
           /\ ("tr_model" \in fx'.cb) = (\E i \in 1..Len(fx'.tr) : fx'.tr[i] = "model") ]_vars

\* C24 witness: a message with both fragments and audio has just been
\* received by an active session.
C24_Witness ==
    /\ isActive /\ fx.tr = <<"user", "model">>
    /\ \E m \in Msgs : msg[m].st = "decoding"

\* C25 (SpecLiveMode): a fragment is merged into the last turn exactly when
\* there is a last turn, it has the fragment's role and its text is shorter
\* than 150 characters; otherwise a turn with the fragment's role and text is
\* appended.  Either way the turns before the last stay as they were, the
\* role of the last turn stays, and the list gets shorter in no step that
\* delivers a fragment.
C25_MergePolicy ==
    [][ ui'.op = "fragment" =>
          LET n == Len(transcripts)
              merge == /\ n > 0 /\ transcripts[n].role = ui'.role
                       /\ transcripts[n].len < 150
          IN /\ Len(transcripts') >= n
             /\ \A i \in 1..(n - 1) : transcripts'[i] = transcripts[i]
             /\ n > 0 => transcripts'[n].role = transcripts[n].role
             /\ IF merge
                THEN /\ Len(transcripts') = n
                     /\ transcripts'[n].len >= transcripts[n].len + ui'.len
                     /\ transcripts'[n].len <= transcripts[n].len + ui'.len + 1
                ELSE /\ Len(transcripts') = n + 1
                     /\ n = 0 \/ transcripts'[n] = transcripts[n]
                     /\ transcripts'[n + 1] = [role |-> ui'.role, len |-> ui'.len] ]_vars

\* C25 witness: a fragment of the same role has just been appended as a new
\* turn because the last turn had reached the threshold by merging.
C25_Witness ==
    /\ ui.op = "fragment" /\ Len(transcripts) = 2
    /\ transcripts[1].role = transcripts[2].role
    /\ transcripts[1].len > 150 /\ transcripts[2].len = ui.len

\* C26 (SpecChat): whatever was exchanged before, the message list of the
\* temporary chat is empty after a reload of the page.
C26_ClearedOnReload ==
    [][ ui'.op = "reload" => messages' = <<>> ]_vars

\* The sample values of [-1, 1].
InRange(x) == x >= -One /\ x <= One

\* C27 (SpecCodec): for a block whose samples are all in [-1, 1], decoding
\* the encoded block gives as many samples, each within 1/32768 of the
\* original.
C27_RoundTrip ==
    (decoded.done /\ \A i \in 1..Len(samples) : InRange(samples[i])) =>
        /\ ~decoded.err
        /\ Len(decoded.data) = Len(samples)
        /\ \A i \in 1..Len(samples) :
              /\ decoded.data[i] - samples[i] <= Steps
              /\ samples[i] - decoded.data[i] <= Steps

\* C27 witness: a block holding 1.0 and a value half a step below 0.5 has
\* been encoded and decoded.
C27_Witness ==
    /\ decoded.done /\ Len(samples) = 2
    /\ samples[1] = One /\ samples[2] = One \div 2 - Steps \div 2
    /\ decoded.data[1] = One - Steps

\* C28 (SpecCodec): encoding a block of any sample values ends without an
\* error, with two bytes per sample, and a sample above 1 is written as
\* 32767 and one below -1 as -32768, whatever its distance from the range.
C28_ClampedNotWrapped ==
    pcm.done =>
        /\ ~pcm.err
        /\ Len(pcm.data) = 2 * Len(samples)
        /\ \A i \in 1..Len(pcm.data) : pcm.data[i] \in 0..255
        /\ \A i \in 1..Len(samples) :
              LET u == pcm.data[2 * i - 1] + 256 * pcm.data[2 * i]
              IN /\ samples[i] > One => u = 32767
                 /\ samples[i] < -One => u = 65536 - 32768

\* C28 witness: a block holding 3.0 and a value just below -2.0 has been
\* encoded.
C28_Witness ==
    /\ pcm.done /\ Len(samples) = 2
    /\ samples[1] = 3 * One /\ samples[2] = -(2 * One + 1)
    /\ pcm.data = <<255, 127, 0, 128>>

\* C29 as stated (SpecPlay): the start time given to the output clock for a
\* chunk is never earlier than the clock's current time at the moment the
\* chunk is scheduled.
C29_StartNotInPast ==
    \A m \in Msgs : msg[m].h # "none" => msg[m].start >= msg[m].at

\* C29 amended (SpecPlay): the maximum with the clock's current time is
\* taken in the step that receives the chunk, which leaves nextStartTime not
\* earlier than the clock; the step that schedules the chunk, after the
\* decode, gives the output clock nextStartTime as it finds it and reads the
\* clock no more.
C29_FloorOnReceipt ==
    [][ \A m \in Msgs :
          /\ (msg[m].st = "none" /\ msg'[m].st = "decoding") =>
                /\ nextStartTime' = Max(nextStartTime, clock)
                /\ nextStartTime' >= clock'
          /\ (msg[m].st = "decoding" /\ msg'[m].h # "none") =>
                /\ msg'[m].start = nextStartTime
                /\ msg'[m].at = clock ]_vars

\* C29 witness: a chunk has just been scheduled to start earlier than the
\* clock reads, the clock having advanced during its decode.
C29_Witness ==
    /\ "schedule" \in fx.cb /\ lastIntr = 0 /\ nDisc = 0
    /\ \E m \in Msgs : msg[m].h = "scheduled" /\ msg[m].ord = NSched
                         /\ msg[m].start < msg[m].at

\* C30 (SpecLife): while the last status reported is connecting, a step
\* changes it or clears the active flag only if it is an on-open (which alone
\* reports connected), an on-error or on-close of a stream, the catch of a
\* setup step that failed, or a disconnect() call; every other step, the
\* opening of the stream included, leaves the status connecting and the flag
\* as it was.
C30_NoHandshakeTimeout ==
    [][ (status = "connecting" /\ (status' # status \/ (isActive /\ ~isActive'))) =>
           \/ /\ fx'.r # 0 /\ rs[fx'.r] = "connecting" /\ rs'[fx'.r] = "open"
              /\ status' = "connected" /\ isActive' = isActive
           \/ /\ fx'.r # 0 /\ rs'[fx'.r] # rs[fx'.r] /\ rs'[fx'.r] \in {"errored", "closed"}
              /\ status' = "idle"
           \/ /\ \E a \in Attempts : pc[a] \in {"getUserMedia", "resumeIn", "resumeOut"}
                                       /\ pc'[a] = "failed"
              /\ status' = "error"
           \/ nDisc' = nDisc + 1 /\ status' = "idle" ]_vars

\* C30 witness: the stream has been requested and its handshake is pending:
\* the status is connecting and the flag set, with no call of connect()
\* suspended any more.
C30_Witness ==
    /\ status = "connecting" /\ isActive
    /\ \E a \in Attempts : pc[a] = "done" /\ rs[a] = "connecting" /\ sessionPromise = a
    /\ \A a \in Attempts : pc[a] \in {"new", "done"}

Increasing(seq) == \A i, j \in 1..Len(seq) : i < j => seq[i] < seq[j]
Times(seq, x) == Cardinality({i \in 1..Len(seq) : seq[i] = x})
Blocks31(r) == {(sent[r] \o queued[r])[i] : i \in 1..Len(sent[r]) + Len(queued[r])}

\* C31 (SpecCapture): a block captured while the active flag is set makes
\* exactly one volume callback and at most one send, the volume callback
\* first; a block is chained or sent only in the step that measured it; no
\* block is sent or chained twice or on two streams; and on each stream the
\* blocks are sent in the order of their capture, the chained ones after
\* those already sent.
C31_OneVolumeThenInOrder ==
    /\ [](\A r \in Attempts :
            /\ Increasing(sent[r] \o queued[r])
            /\ \A q \in Attempts \ {r} : Blocks31(r) \cap Blocks31(q) = {})
    /\ [][ /\ (nBlocks' = nBlocks + 1 /\ isActive) =>
                 /\ Times(fx'.calls, "volume") = 1
                 /\ Times(fx'.calls, "send") <= 1
                 /\ fx'.calls[1] = "volume"
           /\ \A r \in Attempts :
                 /\ Len(queued'[r]) > Len(queued[r]) =>
                       /\ queued'[r] = Append(queued[r], nBlocks') /\ sent'[r] = sent[r]
                       /\ fx'.calls = <<"volume">>
                 /\ (Len(sent'[r]) > Len(sent[r]) /\ nBlocks' # nBlocks) =>
                       /\ sent'[r] = Append(sent[r], nBlocks')
                       /\ fx'.calls = <<"volume", "send">> ]_vars

\* C31 witness: two blocks were captured while the stream promise was
\* pending and sent when it resolved, and a third has just been measured and
\* sent behind them.
C31_Witness ==
    /\ \E r \in Attempts : sent[r] = <<1, 2, 3>>
    /\ fx.calls = <<"volume", "send">> /\ isActive

\* C32 (SpecLife): in every reachable state the last reported status is
\* connecting or connected exactly when the active flag is set.
C32_StatusMatchesFlag ==
    (status \in {"connecting", "connected"}) <=> isActive

\* C33 (SpecPlay): the pending set holds exactly the handles that have been
\* scheduled and have neither ended nor been stopped; it is empty from a
\* disconnect() call until the next connect() call; and it holds no handle
\* made on an output clock other than the current one.
C33_PendingSetExact ==
    /\ sources = {m \in Msgs : msg[m].h = "scheduled"}
    /\ sinceDisc # "no" => sources = {}
    /\ \A m \in sources : msg[m].ctx = outputContext

\* C34 (SpecDecode): the handler of a message whose payload fails to decode
\* reports every transcription fragment the message carries, and when the
\* message carries interrupted, the step in which the handler finishes stops
\* every handle of the pending set, empties the set and sets nextStartTime
\* to 0.
C34_FailureSparesTheRest ==
    [][ \A m \in Msgs :
          /\ (msg[m].st = "none" /\ msg'[m].st # "none" /\ msg'[m].bad # "ok") =>
                {fx'.tr[i] : i \in 1..Len(fx'.tr)} = fx'.frags
          /\ (msg[m].st # "done" /\ msg'[m].st = "done" /\ msg'[m].bad # "ok"
                /\ "interrupt" \in fx'.cb) =>
                /\ sources' = {} /\ nextStartTime' = 0
                /\ \A k \in sources : msg'[k].h = "stopped" ]_vars

\* C34 witness: the second message carried both fragments, an undecodable
\* payload and interrupted, while the chunk of the first was pending: the
\* fragments have just been reported and the chunk stopped.
C34_Witness ==
    /\ msg[2].st = "done" /\ msg[2].bad # "ok"
    /\ fx.tr = <<"user", "model">> /\ "interrupt" \in fx.cb
    /\ msg[1].h = "stopped" /\ sources = {} /\ nextStartTime = 0

\* Lines 129-140 of LiveMode: a step in which the owner calls connect() or
\* disconnect().
Toggled ==
    \/ \E a \in Attempts : pc[a] = "new" /\ pc'[a] # "new"
    \/ nDisc' # nDisc

\* C35 (SpecLife): the step of an on-error leaves the LiveMode controller in
\* status error, with the reason the on-error reported as its error message;
\* and while the status is error with such a reason, a step in which the
\* owner does not toggle the session changes neither.
C35_ErrorShownUntilToggle ==
    [][ /\ (fx'.r # 0 /\ \E i \in 1..Len(fx'.st) : fx'.st[i][1] = "error") =>
              /\ setStatus(status, fx'.st) = "error"
              /\ setErrorMessage("", fx'.st) = ErrorDetails(fx'.err)
        /\ (status = "error" /\ details \in {"key", "network"} /\ ~Toggled) =>
              /\ status' = "error" /\ details' = details ]_vars

\* C36 (SpecChat): at most one request of the chat component is outstanding
\* at any time; a send is accepted only while none is, and appends exactly
\* one user message and sets the loading flag; the settling of a request
\* appends exactly one model message, the response text or an error text, and
\* clears the loading flag.
C36_OneRequestAtATime ==
    /\ [](inFlight <= 1)
    /\ [][ /\ inFlight' = inFlight + 1 =>
                 /\ inFlight = 0 /\ isLoading'
                 /\ \E q \in Questions :
                       messages' = Append(messages, [role |-> "user", text |-> q])
           /\ ui'.op = "settled" =>
                 /\ ~isLoading'
                 /\ \E t \in {AnswerText(a) : a \in Answers} \cup {"Error processing request."} :
                       messages' = Append(messages, [role |-> "model", text |-> t]) ]_vars

====
